---- MODULE Spec2Model ----
(***************************************************************************)
(* Model of github.com/zitadel/sloggcp: the error-reporting slog handler   *)
(* (sloggcp.go, error_reporting.go).  Attribute values are named by        *)
(* identifiers; what a value can do (error, LogValuer, marshaler, ...) is  *)
(* given by the capability sets below, which stand for Go's type           *)
(* assertions.  Output documents are maps from keys to output values.      *)
(***************************************************************************)
EXTENDS Integers, Sequences, FiniteSets, TLC

VARIABLES cfg, handlers, heap, made, held, encErr, sink, calls, last

vars == <<cfg, handlers, heap, made, held, encErr, sink, calls, last>>

(***************************************************************************)
(* Keys, levels and severities: the package constants.                     *)
(***************************************************************************)
SeverityKey == "severity"
MessageKey == "message"
TimeKey == "time"
ErrorKey == "error"
ErrorReportTypeKey == "@type"
ErrorReportTypeValue == "type.googleapis.com/google.devtools.clouderrorreporting.v1beta1.ReportedErrorEvent"
ReportLocationKey == "reportLocation"

LevelDebug == -4
LevelInfo == 0
LevelNotice == LevelInfo + 2
LevelWarning == 4
LevelError == 8
LevelCritical == LevelError + 2
LevelAlert == LevelError + 4
LevelEmergency == LevelError + 6

DefaultSeverity == "DEFAULT"
DebugSeverity == "DEBUG"
InfoSeverity == "INFO"
NoticeSeverity == "NOTICE"
WarningSeverity == "WARNING"
ErrorSeverity == "ERROR"
CriticalSeverity == "CRITICAL"
AlertSeverity == "ALERT"
EmergencySeverity == "EMERGENCY"

\* severityFromLevel with > in place of >= at the warning threshold.
severityFromLevelAboveWarning(level) ==
    IF level >= LevelEmergency THEN EmergencySeverity
    ELSE IF level >= LevelAlert THEN AlertSeverity
    ELSE IF level >= LevelCritical THEN CriticalSeverity
    ELSE IF level >= LevelError THEN ErrorSeverity
    ELSE IF level > LevelWarning THEN WarningSeverity
    ELSE IF level >= LevelNotice THEN NoticeSeverity
    ELSE IF level >= LevelInfo THEN InfoSeverity
    ELSE IF level >= LevelDebug THEN DebugSeverity
    ELSE DefaultSeverity

severityFromLevel(level) ==
    IF level >= LevelEmergency THEN EmergencySeverity
    ELSE IF level >= LevelAlert THEN AlertSeverity
    ELSE IF level >= LevelCritical THEN CriticalSeverity
    ELSE IF level >= LevelError THEN ErrorSeverity
    ELSE IF level >= LevelWarning THEN WarningSeverity
    ELSE IF level >= LevelNotice THEN NoticeSeverity
    ELSE IF level >= LevelInfo THEN InfoSeverity
    ELSE IF level >= LevelDebug THEN DebugSeverity
    ELSE DefaultSeverity

(***************************************************************************)
(* Attribute values.  A string value is named by its own text.  The other  *)
(* values are the test suite's mock types.                                 *)
(***************************************************************************)
StringValues == {"boom", "usermsg", "v1", "v2", "baz", "value1"}

\* slog.KindGroup values and their member attributes (slog.GroupValue).
GroupValues == {"kvGroup", "barGroup"}

GroupMembers(v) ==
    IF v = "kvGroup"
    THEN << [key |-> "key1", val |-> "value1"], [key |-> "key2", val |-> "int42"] >>
    ELSE << [key |-> "bar", val |-> "baz"], [key |-> "baz", val |-> "int42"] >>

\* Values whose dynamic type has an Error() method.
ErrorValues == {"plainErr", "locErr", "nilLocErr", "stackErr", "noStackErr",
                "emptyStackErr", "stackLocErr", "valuerErr", "marshalErr",
                "errStringer", "allCaps"}

\* Values that have a StackTrace() method besides Error().
StackTraceErrors == {"stackErr", "noStackErr", "emptyStackErr", "stackLocErr", "valuerErr"}

\* Values that have a ReportLocation() method besides Error().
ReportLocationErrors == {"locErr", "nilLocErr", "stackLocErr", "valuerErr"}

\* Values that have a LogValue() method.
LogValuers == {"valuerErr", "groupType", "valuerMarshaler", "valuerStringer", "allCaps"}

\* Values that implement json.Marshaler or encoding.TextMarshaler.
Marshalers == {"marshaller", "marshalErr", "marshalStringer", "valuerMarshaler", "allCaps"}

\* Values that have a String() method.
Stringers == {"stringer", "errStringer", "marshalStringer", "valuerStringer", "allCaps"}

Values ==
    StringValues \cup GroupValues \cup ErrorValues \cup LogValuers
        \cup Marshalers \cup Stringers \cup {"int42"}

ErrorText(v) ==
    CASE v = "plainErr" -> "oops"
      [] v = "locErr" -> "mockReportLocationError"
      [] v = "nilLocErr" -> "mockNilLocationError"
      [] v = "stackErr" -> "mockStackTraceError"
      [] v = "noStackErr" -> "mockStackTraceError"
      [] v = "emptyStackErr" -> "mockStackTraceError"
      [] v = "stackLocErr" -> "mockStackAndReport"
      [] v = "valuerErr" -> "mockStackAndReport"
      [] v = "marshalErr" -> "marshalErr text"
      [] v = "allCaps" -> "allCaps text"
      [] OTHER -> "errStringer text"

StringOf(v) ==
    CASE v = "stringer" -> "stringer"
      [] v = "errStringer" -> "errStringer string"
      [] v = "valuerStringer" -> "valuerStringer string"
      [] v = "allCaps" -> "allCaps string"
      [] OTHER -> "marshalStringer string"

\* StackTrace() (trace []byte, ok bool)
StackTrace(v) ==
    CASE v \in {"stackErr", "stackLocErr", "valuerErr"} -> [trace |-> "stack", ok |-> TRUE]
      [] v = "emptyStackErr" -> [trace |-> "", ok |-> TRUE]
      [] OTHER -> [trace |-> "", ok |-> FALSE]

\* ReportLocation() *ReportLocation; "nil" is the nil pointer.
ReportLocation(v) ==
    IF v = "nilLocErr" THEN "nil" ELSE "file.go:42"

\* LogValue() slog.Value
LogValue(v) ==
    IF v = "valuerErr" THEN "kvGroup" ELSE "barGroup"

(***************************************************************************)
(* ReplaceAttr of replace.go.  The values it tells apart: a slog.Level, a  *)
(* string, and any other Go value, among them a *slog.Source ("source")    *)
(* and a nil *slog.Source ("nilSource").                                   *)
(***************************************************************************)
SourceLocationKey == "logging.googleapis.com/sourceLocation"

\* slog.TimeKey, slog.LevelKey, slog.SourceKey, slog.MessageKey
SlogTimeKey == "time"
SlogLevelKey == "level"
SlogSourceKey == "source"
SlogMessageKey == "msg"

LevelVal(level) == [level |-> level, kind |-> "level", id |-> ""]
StringVal(str) == [level |-> 0, kind |-> "string", id |-> str]
AnyVal(v) == [level |-> 0, kind |-> "any", id |-> v]

\* slog.Level.String(): the name of the level below, and the distance.
LevelString(level) ==
    LET name(base, d) == IF d = 0 THEN base ELSE base \o "+" \o ToString(d)
    IN  IF level >= 8 THEN name("ERROR", level - 8)
        ELSE IF level >= 4 THEN name("WARN", level - 4)
        ELSE IF level >= 0 THEN name("INFO", level)
        ELSE IF level = -4 THEN "DEBUG"
        ELSE IF level > -4 THEN "DEBUG+" \o ToString(level + 4)
        ELSE "DEBUG-" \o ToString(0 - 4 - level)

\* slog.Value.String(): the string itself, else the value as fmt prints it.
ValueString(v) ==
    IF v.kind = "string" THEN v.id
    ELSE IF v.kind = "level" THEN LevelString(v.level)
    ELSE IF v.id \in ErrorValues THEN ErrorText(v.id)
    ELSE IF v.id \in Stringers THEN StringOf(v.id)
    ELSE "fmt:" \o v.id

\* ReplaceAttr without the len(groups) == 0 conditions.
ReplaceAttrAnyDepth(groups, a) ==
    IF a.key = SlogTimeKey THEN a
    ELSE IF a.key = SlogLevelKey
    THEN IF a.val.kind # "level" THEN [key |-> SeverityKey, val |-> StringVal(DefaultSeverity)]
         ELSE IF a.val.level = LevelDebug THEN [key |-> SeverityKey, val |-> StringVal(DebugSeverity)]
         ELSE IF a.val.level = LevelInfo THEN [key |-> SeverityKey, val |-> StringVal(InfoSeverity)]
         ELSE IF a.val.level = LevelWarning THEN [key |-> SeverityKey, val |-> StringVal(WarningSeverity)]
         ELSE IF a.val.level = LevelError THEN [key |-> SeverityKey, val |-> StringVal(ErrorSeverity)]
         ELSE [key |-> SeverityKey, val |-> StringVal(DefaultSeverity)]
    ELSE IF a.key = SlogSourceKey
    THEN IF a.val # AnyVal("source") THEN a
         ELSE [key |-> SourceLocationKey, val |-> a.val]
    ELSE IF a.key = SlogMessageKey
    THEN [key |-> MessageKey, val |-> StringVal(ValueString(a.val))]
    ELSE a

\* ReplaceAttr whose message case keeps the value as it is.
ReplaceAttrKeepValue(groups, a) ==
    IF a.key = SlogTimeKey /\ Len(groups) = 0 THEN a
    ELSE IF a.key = SlogLevelKey /\ Len(groups) = 0
    THEN IF a.val.kind # "level" THEN [key |-> SeverityKey, val |-> StringVal(DefaultSeverity)]
         ELSE IF a.val.level = LevelDebug THEN [key |-> SeverityKey, val |-> StringVal(DebugSeverity)]
         ELSE IF a.val.level = LevelInfo THEN [key |-> SeverityKey, val |-> StringVal(InfoSeverity)]
         ELSE IF a.val.level = LevelWarning THEN [key |-> SeverityKey, val |-> StringVal(WarningSeverity)]
         ELSE IF a.val.level = LevelError THEN [key |-> SeverityKey, val |-> StringVal(ErrorSeverity)]
         ELSE [key |-> SeverityKey, val |-> StringVal(DefaultSeverity)]
    ELSE IF a.key = SlogSourceKey /\ Len(groups) = 0
    THEN IF a.val # AnyVal("source") THEN a
         ELSE [key |-> SourceLocationKey, val |-> a.val]
    ELSE IF a.key = SlogMessageKey /\ Len(groups) = 0
    THEN [key |-> MessageKey, val |-> a.val]
    ELSE a

\* ReplaceAttr(groups, a)
ReplaceAttr(groups, a) ==
    IF a.key = SlogTimeKey /\ Len(groups) = 0 THEN a
    ELSE IF a.key = SlogLevelKey /\ Len(groups) = 0
    THEN IF a.val.kind # "level" THEN [key |-> SeverityKey, val |-> StringVal(DefaultSeverity)]
         ELSE IF a.val.level = LevelDebug THEN [key |-> SeverityKey, val |-> StringVal(DebugSeverity)]
         ELSE IF a.val.level = LevelInfo THEN [key |-> SeverityKey, val |-> StringVal(InfoSeverity)]
         ELSE IF a.val.level = LevelWarning THEN [key |-> SeverityKey, val |-> StringVal(WarningSeverity)]
         ELSE IF a.val.level = LevelError THEN [key |-> SeverityKey, val |-> StringVal(ErrorSeverity)]
         ELSE [key |-> SeverityKey, val |-> StringVal(DefaultSeverity)]
    ELSE IF a.key = SlogSourceKey /\ Len(groups) = 0
    THEN IF a.val # AnyVal("source") THEN a
         ELSE [key |-> SourceLocationKey, val |-> a.val]
    ELSE IF a.key = SlogMessageKey /\ Len(groups) = 0
    THEN [key |-> MessageKey, val |-> StringVal(ValueString(a.val))]
    ELSE a

(***************************************************************************)
(* Output values: what Handle stores in the map it hands to the encoder.   *)
(* Str is a Go string, Raw a value passed through as it is (the encoder    *)
(* renders it), MapV a nested map[string]any, LocV a *ReportLocation.      *)
(***************************************************************************)
EmptyMap == << >>

Str(s) == [s |-> s, t |-> "str", m |-> EmptyMap]
Raw(v) == [s |-> v, t |-> "raw", m |-> EmptyMap]
LocV(l) == [s |-> l, t |-> "loc", m |-> EmptyMap]
MapV(m) == [s |-> "", t |-> "map", m |-> m]

\* m[k] = v on a Go map.
Put(m, k, v) == [x \in (DOMAIN m) \cup {k} |-> IF x = k THEN v ELSE m[x]]

\* slog.Value.Any(): the underlying Go value.
AnyOf(v) == IF v \in StringValues THEN Str(v) ELSE Raw(v)

RECURSIVE extractValue(_)
RECURSIVE extractGroup(_, _, _)

\* The loop of extractValue over the members of a group.
extractGroup(attr, i, m) ==
    IF i > Len(attr) THEN m
    ELSE extractGroup(attr, i + 1, Put(m, attr[i].key, extractValue(attr[i].val)))

\* extractValue with the Stringer case before the error case.
extractValueStringerFirst(v) ==
    IF v \in GroupValues THEN MapV(extractGroup(GroupMembers(v), 1, EmptyMap))
    ELSE IF v \in LogValuers THEN extractValue(LogValue(v))
    ELSE IF v \in Marshalers THEN Raw(v)
    ELSE IF v \in Stringers THEN Str(StringOf(v))
    ELSE IF v \in ErrorValues THEN Str(ErrorText(v))
    ELSE AnyOf(v)

extractValue(v) ==
    IF v \in GroupValues THEN MapV(extractGroup(GroupMembers(v), 1, EmptyMap))
    ELSE IF v \in LogValuers THEN extractValue(LogValue(v))
    ELSE IF v \in Marshalers THEN Raw(v)
    ELSE IF v \in ErrorValues THEN Str(ErrorText(v))
    ELSE IF v \in Stringers THEN Str(StringOf(v))
    ELSE AnyOf(v)

\* NewReportLocation(0) called from assertErrorValue: the caller's frame.
NewReportLocation == "error_reporting.go:66"

\* fmt.Sprintf("sloggcp: unsupported type %T with value %v", v, v)
UnsupportedMsg(v) == "sloggcp: unsupported type with value " \o v

\* assertErrorValue that looks at the stack trace only when the value has
\* no error text.
assertErrorValueTextFirst(value) ==
    LET reportLocation ==
            IF value \in ReportLocationErrors THEN ReportLocation(value) ELSE "nil"
    IN  IF value \in ErrorValues /\ ErrorText(value) # ""
        THEN [reportLocation |-> reportLocation, errMsg |-> ErrorText(value)]
        ELSE IF value \in StackTraceErrors /\ StackTrace(value).ok
             THEN [reportLocation |-> reportLocation, errMsg |-> StackTrace(value).trace]
        ELSE IF value \in StringValues
             THEN [reportLocation |-> reportLocation, errMsg |-> value]
        ELSE [reportLocation |-> NewReportLocation, errMsg |-> UnsupportedMsg(value)]

\* assertErrorValue whose default case leaves the location nil.
assertErrorValueNoNewLocation(value) ==
    LET traced == value \in StackTraceErrors /\ StackTrace(value).ok
        errMsg == IF traced THEN StackTrace(value).trace ELSE ""
        reportLocation ==
            IF value \in ReportLocationErrors THEN ReportLocation(value) ELSE "nil"
    IN  IF errMsg # "" THEN [reportLocation |-> reportLocation, errMsg |-> errMsg]
        ELSE IF value \in ErrorValues
             THEN [reportLocation |-> reportLocation, errMsg |-> ErrorText(value)]
        ELSE IF value \in StringValues
             THEN [reportLocation |-> reportLocation, errMsg |-> value]
        ELSE [reportLocation |-> reportLocation, errMsg |-> UnsupportedMsg(value)]

assertErrorValue(value) ==
    LET traced == value \in StackTraceErrors /\ StackTrace(value).ok
        errMsg == IF traced THEN StackTrace(value).trace ELSE ""
        reportLocation ==
            IF value \in ReportLocationErrors THEN ReportLocation(value) ELSE "nil"
    IN  IF errMsg # "" THEN [reportLocation |-> reportLocation, errMsg |-> errMsg]
        ELSE IF value \in ErrorValues
             THEN [reportLocation |-> reportLocation, errMsg |-> ErrorText(value)]
        ELSE IF value \in StringValues
             THEN [reportLocation |-> reportLocation, errMsg |-> value]
        ELSE [reportLocation |-> NewReportLocation, errMsg |-> UnsupportedMsg(value)]

\* checkAndSetErrorReport without out[MessageKey] = errMsg.
checkAndSetKeepMessage(a, out) ==
    IF a.key # ErrorKey THEN [out |-> out, hit |-> FALSE]
    ELSE
        LET value == a.val
            r == assertErrorValue(value)
            o1 == Put(out, ErrorReportTypeKey, Str(ErrorReportTypeValue))
            o3 == Put(o1, ErrorKey, AnyOf(value))
            o4 == IF r.reportLocation # "nil"
                  THEN Put(o3, ReportLocationKey, LocV(r.reportLocation))
                  ELSE o3
            o5 == IF value \in LogValuers
                  THEN Put(o4, ErrorKey, extractValue(LogValue(value)))
                  ELSE IF value \in ErrorValues
                       THEN Put(o4, ErrorKey, Str(ErrorText(value)))
                       ELSE o4
        IN  [out |-> o5, hit |-> TRUE]

\* checkAndSetErrorReport(a, out): [hit, out].
checkAndSetErrorReport(a, out) ==
    IF a.key # ErrorKey THEN [out |-> out, hit |-> FALSE]
    ELSE
        LET value == a.val
            r == assertErrorValue(value)
            o1 == Put(out, ErrorReportTypeKey, Str(ErrorReportTypeValue))
            o2 == Put(o1, MessageKey, Str(r.errMsg))
            o3 == Put(o2, ErrorKey, AnyOf(value))
            o4 == IF r.reportLocation # "nil"
                  THEN Put(o3, ReportLocationKey, LocV(r.reportLocation))
                  ELSE o3
            o5 == IF value \in LogValuers
                  THEN Put(o4, ErrorKey, extractValue(LogValue(value)))
                  ELSE IF value \in ErrorValues
                       THEN Put(o4, ErrorKey, Str(ErrorText(value)))
                       ELSE o4
        IN  [out |-> o5, hit |-> TRUE]

(***************************************************************************)
(* Handlers.  A handler is the Go struct: a pointer to the options, the    *)
(* goas slice (backing array in heap, and length), the mutex and the       *)
(* encoder it points to.  heap[i] is a backing array; its length is its    *)
(* capacity.                                                               *)
(***************************************************************************)
NilSlice == [arr |-> 0, len |-> 0]

\* The zero groupOrAttrs that make() fills a new array with.
ZeroGoa == [group |-> "", attrs |-> << >>]

GroupGoa(name) == [group |-> name, attrs |-> << >>]
AttrsGoa(attrs) == [group |-> "", attrs |-> attrs]

\* The elements a slice shows: goas[0:len].
SliceOf(hp, sl) == IF sl.len = 0 THEN << >> ELSE SubSeq(hp[sl.arr], 1, sl.len)

Goas(h) == SliceOf(heap, h.goas)

\* DefaultOpts.Level
DefaultLevel == LevelInfo

\* NewErrorReportingHandler(w, opts): nil opts are DefaultOpts, an unset
\* level is DefaultOpts.Level; one new mutex and one encoder on w.
NewErrorReportingHandler(c) ==
    LET level == IF c.isNil \/ ~c.levelSet THEN DefaultLevel ELSE c.level
        hook == IF c.isNil THEN "nil" ELSE c.hook
        addSource == IF c.isNil THEN FALSE ELSE c.addSource
    IN  [goas |-> NilSlice,
         opts |-> [level |-> level, hook |-> hook, addSource |-> addSource],
         mtx |-> 1, encoder |-> 1]

\* Enabled with > in place of >=.
EnabledAbove(h, level) == level > h.opts.level

\* handler.Enabled
Enabled(h, level) == level >= h.opts.level

\* n zero elements.
Zeros(n) == [i \in 1..n |-> ZeroGoa]

\* newGoas as append(h.goas, zero) would do it with capacity to spare: the
\* parent's array grows in place and h2.goas is a longer slice of it.
growGoas(hp, h) ==
    IF h.goas.arr = 0
    THEN [heap |-> Append(hp, << ZeroGoa >>),
          h2 |-> [h EXCEPT !.goas = [arr |-> Len(hp) + 1, len |-> 1]]]
    ELSE [heap |-> [hp EXCEPT ![h.goas.arr] = SliceOf(hp, h.goas) \o << ZeroGoa >>],
          h2 |-> [h EXCEPT !.goas = [arr |-> h.goas.arr, len |-> h.goas.len + 1]]]

\* h2 := *h; h2.goas = make([]groupOrAttrs, len(h.goas)+1).  [h2, heap].
newGoas(hp, h) ==
    [heap |-> Append(hp, Zeros(h.goas.len + 1) \o << >>),
     h2 |-> [h EXCEPT !.goas = [arr |-> Len(hp) + 1, len |-> h.goas.len + 1]]]

\* copy(h2.goas, h.goas): the heap afterwards.
copyGoas(hp, h2, h) ==
    LET src == SliceOf(hp, h.goas)
        dst == hp[h2.goas.arr]
        n == IF Len(src) < h2.goas.len THEN Len(src) ELSE h2.goas.len
    IN  [hp EXCEPT ![h2.goas.arr] = SubSeq(src, 1, n) \o SubSeq(dst, n + 1, Len(dst))]

\* h2.goas[len(h2.goas)-1] = goa: the heap afterwards.
setLast(hp, h2, goa) ==
    LET dst == hp[h2.goas.arr]
        n == h2.goas.len
    IN  [hp EXCEPT ![h2.goas.arr] = SubSeq(dst, 1, n - 1) \o << goa >> \o SubSeq(dst, n + 1, Len(dst))]

\* withGroupOrAttrs in which the derived handler gets a mutex of its own.
withGroupOrAttrsOwnMutex(hp, h, goa) ==
    LET m == newGoas(hp, h)
        h2 == [m.h2 EXCEPT !.mtx = Len(hp) + 2]
    IN  [heap |-> setLast(copyGoas(m.heap, h2, h), h2, goa), h2 |-> h2]

\* withGroupOrAttrs from call to return.  [h2, heap].
withGroupOrAttrs(hp, h, goa) ==
    LET m == newGoas(hp, h)
    IN  [heap |-> setLast(copyGoas(m.heap, m.h2, h), m.h2, goa), h2 |-> m.h2]

(***************************************************************************)
(* The ReplaceAttr hook of the options.  "errToError" is the hook of the   *)
(* package example and tests: at depth 0 it renames key err to ErrorKey.   *)
(***************************************************************************)
errToError(groups, a) ==
    IF Len(groups) # 0 THEN a
    ELSE IF a.key = "err" THEN [a EXCEPT !.key = ErrorKey]
    ELSE a

\* handler.replaceAttr
replaceAttr(opts, groups, a) ==
    IF opts.hook # "nil" THEN errToError(groups, a) ELSE a

(***************************************************************************)
(* Handle, up to the lock: the map built for one record.                   *)
(***************************************************************************)
RECURSIVE SetAt(_, _, _, _)
\* group[k] = v where group is the map reached from out through path.
SetAt(out, path, k, v) ==
    IF path = << >> THEN Put(out, k, v)
    ELSE Put(out, Head(path), MapV(SetAt(out[Head(path)].m, Tail(path), k, v)))

\* time, source, message and severity of the record.
handleHeader(opts, r) ==
    LET o1 == IF r.time # "zero" THEN Put(EmptyMap, TimeKey, Str(r.time)) ELSE EmptyMap
        o2 == IF opts.addSource /\ r.source # "nil"
              THEN Put(o1, "logging.googleapis.com/sourceLocation", Raw(r.source))
              ELSE o1
        o3 == IF r.msg # "" THEN Put(o2, MessageKey, Str(r.msg)) ELSE o2
    IN  Put(o3, SeverityKey, Str(severityFromLevel(r.level)))

\* dropTrailingGroups with an if in place of the for: one group at most.
dropOneTrailingGroup(goas) ==
    IF Len(goas) > 0 /\ goas[Len(goas)].group # ""
    THEN SubSeq(goas, 1, Len(goas) - 1)
    ELSE goas

RECURSIVE dropTrailingGroups(_)
\* for len(goas) > 0 && goas[len(goas)-1].group != "" { goas = goas[:len(goas)-1] }
dropTrailingGroups(goas) ==
    IF Len(goas) > 0 /\ goas[Len(goas)].group # ""
    THEN dropTrailingGroups(SubSeq(goas, 1, Len(goas) - 1))
    ELSE goas

\* The local goas of Handle: h.goas, without its trailing groups when the
\* record has no attributes.
effectiveGoas(goas, r) ==
    IF Len(r.attrs) = 0 THEN dropTrailingGroups(goas) ELSE goas

RECURSIVE scanBatch(_, _, _)
\* for _, a := range goa.attrs { if checkAndSetErrorReport(a, out) { break } }
scanBatch(attrs, i, out) ==
    IF i > Len(attrs) THEN out
    ELSE LET r == checkAndSetErrorReport(attrs[i], out)
         IN  IF r.hit THEN r.out ELSE scanBatch(attrs, i + 1, out)

RECURSIVE scanStackThroughGroups(_, _, _)
\* scanStack with continue in place of the break at a group.
scanStackThroughGroups(goas, i, out) ==
    IF i > Len(goas) THEN out
    ELSE IF goas[i].group # "" THEN scanStackThroughGroups(goas, i + 1, out)
    ELSE scanStackThroughGroups(goas, i + 1, scanBatch(goas[i].attrs, 1, out))

RECURSIVE scanStack(_, _, _)
\* The search for error attributes in the batches before the first group.
scanStack(goas, i, out) ==
    IF i > Len(goas) THEN out
    ELSE IF goas[i].group # "" THEN out
    ELSE scanStack(goas, i + 1, scanBatch(goas[i].attrs, 1, out))

RECURSIVE replayBatchAtTop(_, _, _, _, _)
\* replayBatch with out[a.Key] in place of group[a.Key].
replayBatchAtTop(opts, attrs, i, groups, out) ==
    IF i > Len(attrs) THEN out
    ELSE LET a == replaceAttr(opts, groups, attrs[i])
         IN  replayBatchAtTop(opts, attrs, i + 1, groups, SetAt(out, << >>, a.key, AnyOf(a.val)))

RECURSIVE replayBatch(_, _, _, _, _)
\* for _, a := range goa.attrs { a = h.replaceAttr(groups, a); group[a.Key] = a.Value.Any() }
replayBatch(opts, attrs, i, groups, out) ==
    IF i > Len(attrs) THEN out
    ELSE LET a == replaceAttr(opts, groups, attrs[i])
         IN  replayBatch(opts, attrs, i + 1, groups, SetAt(out, groups, a.key, AnyOf(a.val)))

RECURSIVE replayStack(_, _, _, _, _)
\* The replay of the stack: [out, groups].
replayStack(opts, goas, i, groups, out) ==
    IF i > Len(goas) THEN [groups |-> groups, out |-> out]
    ELSE IF goas[i].group # ""
    THEN replayStack(opts, goas, i + 1, Append(groups, goas[i].group),
                     SetAt(out, groups, goas[i].group, MapV(EmptyMap)))
    ELSE replayStack(opts, goas, i + 1, groups,
                     replayBatch(opts, goas[i].attrs, 1, groups, out))

\* One call of the function handed to r.Attrs.
recordAttr(opts, groups, a0, out) ==
    LET a == replaceAttr(opts, groups, a0)
        o1 == IF Len(groups) = 0 THEN checkAndSetErrorReport(a, out).out ELSE out
    IN  SetAt(o1, groups, a.key, extractValue(a.val))

RECURSIVE recordAttrs(_, _, _, _, _)
\* r.Attrs(...): the record's attributes in declaration order.
recordAttrs(opts, attrs, i, groups, out) ==
    IF i > Len(attrs) THEN out
    ELSE recordAttrs(opts, attrs, i + 1, groups, recordAttr(opts, groups, attrs[i], out))

\* The map Handle encodes for record r on a handler with options opts and
\* stack goas.
handleOut(opts, goas, r) ==
    LET eff == effectiveGoas(goas, r)
        scanned == scanStack(eff, 1, handleHeader(opts, r))
        replayed == replayStack(opts, eff, 1, << >>, scanned)
    IN  recordAttrs(opts, r.attrs, 1, replayed.groups, replayed.out)

(***************************************************************************)
(* State.                                                                  *)
(*   cfg       the options handed to NewErrorReportingHandler              *)
(*   handlers  every handler made so far; handlers[1] is the root          *)
(*   heap      the backing arrays of the goas slices                       *)
(*   made      for each handler, how it was made: the parent, the entry    *)
(*             given, and the stack it showed when it was returned         *)
(*   held      the mutexes that are locked, each with the call holding it  *)
(*   encErr    the encoders that keep the error of a failed write          *)
(*   sink      what the writer has received, in pieces                     *)
(*   calls     the calls of concurrent goroutines, each with its pc        *)
(*   last      the last call of a sequential caller: of a logger, or of    *)
(*             one of the package's functions                              *)
(***************************************************************************)
NoRecord == [level |-> LevelInfo, attrs |-> << >>, time |-> "zero", source |-> "nil", msg |-> ""]

NoLast == [out |-> EmptyMap, h |-> 0, rec |-> NoRecord, handled |-> FALSE, failed |-> FALSE]

Attr(k, v) == [key |-> k, val |-> v]

Rec(level, attrs) ==
    [level |-> level, attrs |-> attrs, time |-> "2026-01-02T03:04:05Z", source |-> "nil",
     msg |-> "log message"]

InitWith(cfgs) ==
    /\ cfg \in cfgs
    /\ handlers = << NewErrorReportingHandler(cfg) >>
    /\ heap = << >>
    /\ made = << [goas |-> << >>, goa |-> ZeroGoa, parent |-> 0] >>
    /\ held = {}
    /\ encErr = {}
    /\ sink = << >>
    /\ calls = << >>
    /\ last = NoLast

\* WithAttrs and WithGroup on handlers[p]: the handler withGroupOrAttrs
\* returns is a new one.
Derive(p, goa) ==
    LET r == withGroupOrAttrs(heap, handlers[p], goa)
    IN  /\ handlers' = Append(handlers, r.h2)
        /\ heap' = r.heap
        /\ made' = Append(made, [goas |-> SliceOf(r.heap, r.h2.goas), goa |-> goa, parent |-> p])
        /\ UNCHANGED <<cfg, held, encErr, sink, calls, last>>

\* handler.WithAttrs on handlers[p].
WithAttrs(p, attrs) == Derive(p, AttrsGoa(attrs))

\* handler.WithGroup on handlers[p].
WithGroup(p, name) == Derive(p, GroupGoa(name))

\* withGroupOrAttrs on handlers[p], statement by statement, for goroutines
\* that derive while others run.  WithStart: h2 := *h and make.
WithStart(p, goa) ==
    LET m == newGoas(heap, handlers[p])
    IN  /\ heap' = m.heap
        /\ calls' = Append(calls, [kind |-> "with", h |-> p, h2 |-> m.h2, goa |-> goa,
                                   res |-> 0, pc |-> "copy"])
        /\ UNCHANGED <<cfg, handlers, made, held, encErr, sink, last>>

\* copy(h2.goas, h.goas)
WithCopy(c) ==
    /\ calls[c].kind = "with" /\ calls[c].pc = "copy"
    /\ heap' = copyGoas(heap, calls[c].h2, handlers[calls[c].h])
    /\ calls' = [calls EXCEPT ![c].pc = "set"]
    /\ UNCHANGED <<cfg, handlers, made, held, encErr, sink, last>>

\* h2.goas[len(h2.goas)-1] = goa
WithSet(c) ==
    /\ calls[c].kind = "with" /\ calls[c].pc = "set"
    /\ heap' = setLast(heap, calls[c].h2, calls[c].goa)
    /\ calls' = [calls EXCEPT ![c].pc = "return"]
    /\ UNCHANGED <<cfg, handlers, made, held, encErr, sink, last>>

\* return &h2
WithReturn(c) ==
    /\ calls[c].kind = "with" /\ calls[c].pc = "return"
    /\ handlers' = Append(handlers, calls[c].h2)
    /\ made' = Append(made, [goas |-> SliceOf(heap, calls[c].h2.goas), goa |-> calls[c].goa,
                             parent |-> calls[c].h])
    /\ calls' = [calls EXCEPT ![c].pc = "done", ![c].res = Len(handlers) + 1]
    /\ UNCHANGED <<cfg, heap, held, encErr, sink, last>>

\* The two pieces in which a line reaches the writer.
Line(c) == << [call |-> c, part |-> "body"], [call |-> c, part |-> "nl"] >>

\* h.encoder.Encode(out) asked to end as res ("ok", "marshalErr" or
\* "writeErr"): an encoder that keeps an error returns it at once.
encodeResult(h, res) == IF h.encoder \in encErr THEN "writeErr" ELSE res

\* A logger that logs record r through handlers[p] while no other call is
\* running: Enabled, and if it says yes, Handle from start to return.  res
\* is what the encoder and the writer make of the document.
LogSync(p, r, res) ==
    LET h == handlers[p]
        got == encodeResult(h, res)
    IN
    /\ held = {}
    /\ IF ~Enabled(h, r.level)
       THEN /\ last' = [out |-> EmptyMap, h |-> p, rec |-> r, handled |-> FALSE, failed |-> FALSE]
            /\ sink' = sink
            /\ encErr' = encErr
       ELSE /\ last' = [out |-> handleOut(h.opts, Goas(h), r), h |-> p, rec |-> r,
                        handled |-> TRUE, failed |-> got # "ok"]
            /\ sink' = IF got = "ok" THEN sink \o Line(Len(sink) \div 2 + 1) ELSE sink
            /\ encErr' = IF got = "writeErr" THEN encErr \cup {h.encoder} ELSE encErr
    /\ UNCHANGED <<cfg, handlers, heap, made, held, calls>>

\* A logger of a concurrent goroutine: Enabled says yes and Handle is called.
HandleStart(p, r) ==
    /\ Enabled(handlers[p], r.level)
    /\ calls' = Append(calls, [kind |-> "handle", out |-> EmptyMap, h |-> p, rec |-> r,
                               failed |-> FALSE, pc |-> "transform", asked |-> "none",
                               tries |-> 0])
    /\ UNCHANGED <<cfg, handlers, heap, made, held, encErr, sink, last>>

\* HandleTransform with h.goas = goas after the pruning: the handler keeps
\* the view without its trailing groups.
HandleTransformInPlace(c) ==
    LET h == handlers[calls[c].h] IN
    /\ calls[c].kind = "handle" /\ calls[c].pc = "transform"
    /\ calls' = [calls EXCEPT ![c].out = handleOut(h.opts, Goas(h), calls[c].rec),
                              ![c].pc = "lock"]
    /\ handlers' = [handlers EXCEPT
                       ![calls[c].h].goas.len = Len(effectiveGoas(Goas(h), calls[c].rec))]
    /\ UNCHANGED <<cfg, heap, made, held, encErr, sink, last>>

\* Handle from its first statement to the one before h.mtx.Lock().
HandleTransform(c) ==
    LET h == handlers[calls[c].h] IN
    /\ calls[c].kind = "handle" /\ calls[c].pc = "transform"
    /\ calls' = [calls EXCEPT ![c].out = handleOut(h.opts, Goas(h), calls[c].rec),
                              ![c].pc = "lock"]
    /\ UNCHANGED <<cfg, handlers, heap, made, held, encErr, sink, last>>

\* h.mtx.Lock(): returns once the mutex is free.
HandleLock(c) ==
    LET h == handlers[calls[c].h] IN
    /\ calls[c].kind = "handle" /\ calls[c].pc = "lock"
    /\ \A x \in held : x.mtx # h.mtx
    /\ held' = held \cup {[mtx |-> h.mtx, by |-> c]}
    /\ calls' = [calls EXCEPT ![c].pc = "encode"]
    /\ UNCHANGED <<cfg, handlers, heap, made, encErr, sink, last>>

\* h.encoder.Encode(out) up to the moment the writer has the document's
\* text, or up to its failure.  res is what marshalling the document and
\* the writer would do for this call; asked keeps it.
HandleEncode(c, res) ==
    LET h == handlers[calls[c].h]
        got == encodeResult(h, res)
    IN
    /\ calls[c].kind = "handle" /\ calls[c].pc = "encode"
    /\ IF got = "ok"
       THEN /\ sink' = Append(sink, Line(c)[1])
            /\ calls' = [calls EXCEPT ![c].pc = "write", ![c].asked = res,
                                      ![c].tries = @ + 1]
            /\ encErr' = encErr
       ELSE /\ sink' = sink
            /\ calls' = [calls EXCEPT ![c].failed = TRUE, ![c].pc = "unlock",
                                      ![c].asked = res, ![c].tries = @ + 1]
            /\ encErr' = IF got = "writeErr" THEN encErr \cup {h.encoder} ELSE encErr
    /\ UNCHANGED <<cfg, handlers, heap, made, held, last>>

\* The writer receives the rest of the line, its newline.
HandleWrite(c) ==
    /\ calls[c].kind = "handle" /\ calls[c].pc = "write"
    /\ sink' = Append(sink, Line(c)[2])
    /\ calls' = [calls EXCEPT ![c].pc = "unlock"]
    /\ UNCHANGED <<cfg, handlers, heap, made, held, encErr, last>>

\* The deferred h.mtx.Unlock() and the return.
HandleReturn(c) ==
    LET h == handlers[calls[c].h] IN
    /\ calls[c].kind = "handle" /\ calls[c].pc = "unlock"
    /\ held' = held \ {[mtx |-> h.mtx, by |-> c]}
    /\ calls' = [calls EXCEPT ![c].pc = "done"]
    /\ UNCHANGED <<cfg, handlers, heap, made, encErr, sink, last>>

(***************************************************************************)
(* Spec: one logger, derived step by step, logging records with            *)
(* attributes.                                                             *)
(***************************************************************************)
MaxSize == 3

GroupNames == {"g", "h"}

AttrPool ==
    { Attr(ErrorKey, "locErr"), Attr(ErrorKey, "boom"), Attr("err", "valuerErr"),
      Attr(MessageKey, "usermsg"), Attr("k", "stringer") }

AttrSeqs(n) == UNION { [1..k -> AttrPool] : k \in 0..n }

NilCfg == [level |-> 0, isNil |-> TRUE, levelSet |-> FALSE, hook |-> "nil", addSource |-> FALSE]

Cfg(levelSet, level, hook) ==
    [level |-> level, isNil |-> FALSE, levelSet |-> levelSet, hook |-> hook, addSource |-> FALSE]

Cfgs ==
    { NilCfg, Cfg(FALSE, 0, "errToError"), Cfg(TRUE, LevelDebug, "nil"),
      Cfg(TRUE, LevelWarning, "errToError") }

Levels == { LevelDebug, LevelInfo, LevelError }

RECURSIVE Size(_)
\* The groups and attributes of a stack, counted.
Size(goas) ==
    IF goas = << >> THEN 0
    ELSE (IF Head(goas).group # "" THEN 1 ELSE Len(Head(goas).attrs)) + Size(Tail(goas))

Tip == Len(handlers)

Init == InitWith(Cfgs)

TipRoom == MaxSize - Size(Goas(handlers[Tip]))

DeriveGroup ==
    \E name \in GroupNames :
        /\ last = NoLast
        /\ TipRoom > 0
        /\ WithGroup(Tip, name)

DeriveAttrs ==
    \E attrs \in AttrSeqs(TipRoom) :
        /\ last = NoLast
        /\ Len(attrs) > 0
        /\ WithAttrs(Tip, attrs)

LogRecord ==
    \E level \in Levels, attrs \in AttrSeqs(TipRoom) :
        /\ last = NoLast
        /\ LogSync(Tip, Rec(level, attrs), "ok")

Next == DeriveGroup \/ DeriveAttrs \/ LogRecord

Spec == Init /\ [][Next]_vars

(***************************************************************************)
(* What the properties below speak about: the document of the last call    *)
(* of the sequential logger, the stack of its handler and its record.      *)
(***************************************************************************)
Emitted == last.handled /\ ~last.failed

LastOpts == handlers[last.h].opts

LastGoas == Goas(handlers[last.h])

Doc == last.out

RECURSIVE Flatten(_)
\* The attributes of a list of batches, in order.
Flatten(goas) ==
    IF goas = << >> THEN << >> ELSE Head(goas).attrs \o Flatten(Tail(goas))

RECURSIVE BeforeFirstGroup(_)
\* The entries of a stack that precede its first group.
BeforeFirstGroup(goas) ==
    IF goas = << >> \/ Head(goas).group # "" THEN << >>
    ELSE << Head(goas) >> \o BeforeFirstGroup(Tail(goas))

HasGroup(goas) == \E i \in 1..Len(goas) : goas[i].group # ""

\* The attributes at depth zero that come from WithAttrs, and those the
\* record carries (none when a group is open).
StackTopAttrs == Flatten(BeforeFirstGroup(LastGoas))

RecordTopAttrs == IF HasGroup(LastGoas) THEN << >> ELSE last.rec.attrs

\* The key an attribute has at depth zero once the hook has seen it.
TopKey(a) == replaceAttr(LastOpts, << >>, a).key

Has(m, k) == k \in DOMAIN m

\* The value the package documentation promises under the error key.
DocumentedErrorValue(v) ==
    IF v \in LogValuers THEN extractValue(LogValue(v))
    ELSE IF v \in ErrorValues THEN Str(ErrorText(v))
    ELSE AnyOf(v)

\* The document is the error report of value v.
IsReportOf(v) ==
    /\ Has(Doc, ErrorReportTypeKey)
    /\ Doc[ErrorReportTypeKey] = Str(ErrorReportTypeValue)
    /\ Has(Doc, MessageKey)
    /\ Doc[MessageKey] = Str(assertErrorValue(v).errMsg)
    /\ Has(Doc, ReportLocationKey) <=> assertErrorValue(v).reportLocation # "nil"

ReportKeys == {MessageKey, ErrorReportTypeKey, ReportLocationKey}

TopAttrs == StackTopAttrs \o RecordTopAttrs

\* Attribute a is keyed with the error key, before or after the hook.
ErrorKeyed(a) == a.key = ErrorKey \/ TopKey(a) = ErrorKey

\* RecordTopAttrs[i] is the only depth-zero attribute keyed with the error
\* key, and no attribute after it is keyed with a key of the report.
AloneAndLast(i) ==
    /\ \A j \in 1..Len(StackTopAttrs) : ~ErrorKeyed(StackTopAttrs[j])
    /\ \A j \in 1..Len(RecordTopAttrs) : j # i => ~ErrorKeyed(RecordTopAttrs[j])
    /\ \A j \in (i + 1)..Len(RecordTopAttrs) : TopKey(RecordTopAttrs[j]) \notin ReportKeys

C3_HookSeenBeforeDetection ==
    (Emitted /\ LastOpts.hook # "nil") =>
        \A i \in 1..Len(TopAttrs) :
            (TopAttrs[i].key # ErrorKey /\ TopKey(TopAttrs[i]) = ErrorKey)
                => /\ Has(Doc, ErrorReportTypeKey)
                   /\ Doc[MessageKey] # Str(last.rec.msg)

\* The depth-zero attributes keyed with the error key, stack first.
ErrorAttrs == SelectSeq(TopAttrs, LAMBDA a : a.key = ErrorKey)

(***************************************************************************)
(* C4 (as claimed): when several depth-zero attributes are keyed with the  *)
(* error key, @type, message, error and reportLocation of the document are *)
(* those of the first of them in stack-then-record order.                  *)
(***************************************************************************)
C4_FirstErrorWins ==
    (Emitted /\ Len(ErrorAttrs) >= 2) =>
        /\ IsReportOf(ErrorAttrs[1].val)
        /\ Doc[ErrorKey] = DocumentedErrorValue(ErrorAttrs[1].val)

(***************************************************************************)
(* C5 (as claimed): in an error-report document the value under the error  *)
(* key is the flattened LogValue() of a LogValuer, else the error string   *)
(* of a string or error, for an attribute from WithAttrs as for one of the *)
(* record.  Stated for documents with one depth-zero error attribute.      *)
(***************************************************************************)
C5_ErrorValueForm ==
    (Emitted /\ Has(Doc, ErrorReportTypeKey)) =>
        \A i \in 1..Len(TopAttrs) :
            /\ ErrorKeyed(TopAttrs[i])
            /\ \A j \in 1..Len(TopAttrs) : j # i => ~ErrorKeyed(TopAttrs[j])
            => Doc[ErrorKey] = DocumentedErrorValue(TopAttrs[i].val)

(***************************************************************************)
(* Where the attributes of a call belong: each attribute with the groups   *)
(* opened before it, its key after the hook, and the value written for it  *)
(* (the Go value for an attribute of the stack, the extracted value for    *)
(* one of the record).                                                     *)
(***************************************************************************)
PlaceBatch(attrs, path, from) ==
    [i \in 1..Len(attrs) |->
        [key |-> replaceAttr(LastOpts, path, attrs[i]).key,
         path |-> path,
         written |-> IF from = "stack" THEN AnyOf(attrs[i].val) ELSE extractValue(attrs[i].val)]]

RECURSIVE PlaceAll(_, _, _)
PlaceAll(goas, path, recAttrs) ==
    IF goas = << >> THEN PlaceBatch(recAttrs, path, "record")
    ELSE IF Head(goas).group # ""
    THEN PlaceAll(Tail(goas), Append(path, Head(goas).group), recAttrs)
    ELSE PlaceBatch(Head(goas).attrs, path, "stack") \o PlaceAll(Tail(goas), path, recAttrs)

\* The attributes of the last call, in stack-then-record order.
Placed == PlaceAll(LastGoas, << >>, last.rec.attrs)

\* The names of the groups among the first i entries of a stack.
GroupPath(goas, i) ==
    LET gs == SelectSeq(SubSeq(goas, 1, i), LAMBDA e : e.group # "")
    IN  [j \in 1..Len(gs) |-> gs[j].group]

RECURSIVE Present(_, _)
\* The document has a map at path.
Present(doc, path) ==
    \/ path = << >>
    \/ /\ Has(doc, Head(path))
       /\ doc[Head(path)].t = "map"
       /\ Present(doc[Head(path)].m, Tail(path))

RECURSIVE At(_, _)
\* The map at path.
At(doc, path) == IF path = << >> THEN doc ELSE At(doc[Head(path)].m, Tail(path))

\* The last attribute placed at path under key k, 0 if there is none.
LastPlaced(path, k) ==
    LET is == {i \in 1..Len(Placed) : Placed[i].path = path /\ Placed[i].key = k}
    IN  IF is = {} THEN 0 ELSE CHOOSE i \in is : \A j \in is : j <= i

NoTopError == \A i \in 1..Len(TopAttrs) : ~ErrorKeyed(TopAttrs[i])

GroupedErrors == {i \in 1..Len(Placed) : Placed[i].path # << >> /\ Placed[i].key = ErrorKey}

(***************************************************************************)
(* C6: an attribute keyed with the error key inside an open group, from    *)
(* WithAttrs after a WithGroup or from the record of a handler with an     *)
(* open group, triggers no error report: with no error attribute at depth  *)
(* zero the document has no @type and no reportLocation, its message is    *)
(* the record's (unless a depth-zero attribute is keyed message), and the  *)
(* attribute is a member of the map of its innermost group.                *)
(***************************************************************************)
C6_GroupedErrorIsOrdinary ==
    (Emitted /\ NoTopError) =>
        \A i \in GroupedErrors :
            /\ ~Has(Doc, ErrorReportTypeKey)
            /\ ~Has(Doc, ReportLocationKey)
            /\ LastPlaced(<< >>, MessageKey) = 0 => Doc[MessageKey] = Str(last.rec.msg)
            /\ Present(Doc, Placed[i].path)
            /\ Has(At(Doc, Placed[i].path), ErrorKey)
            /\ At(Doc, Placed[i].path)[ErrorKey]
                   = Placed[LastPlaced(Placed[i].path, ErrorKey)].written

\* A located error attached after WithGroup and an error in the record.
C6_Witness ==
    /\ Emitted
    /\ Len(LastGoas) = 2
    /\ LastGoas[1].group # ""
    /\ LastGoas[2].attrs = << Attr(ErrorKey, "locErr") >>
    /\ last.rec.attrs = << Attr(ErrorKey, "boom") >>
    /\ ~Has(Doc, ErrorReportTypeKey)
    /\ Doc[LastGoas[1].group].m[ErrorKey] = Str("boom")

(***************************************************************************)
(* C7: for a record without attributes, a group of the stack is in the     *)
(* document exactly when an attribute batch follows it in the stack        *)
(* (trailing groups are elided); for a record with attributes every group  *)
(* of the stack is in the document.                                        *)
(***************************************************************************)
C7_TrailingGroupsElided ==
    Emitted =>
        \A i \in 1..Len(LastGoas) :
            LastGoas[i].group # "" =>
                (Present(Doc, GroupPath(LastGoas, i))
                    <=> \/ Len(last.rec.attrs) > 0
                        \/ \E j \in (i + 1)..Len(LastGoas) : LastGoas[j].group = "")

\* group, attributes, group and a record without attributes: the first
\* group is there, the second is not.
C7_Witness ==
    /\ Emitted
    /\ Len(last.rec.attrs) = 0
    /\ Len(LastGoas) = 3
    /\ LastGoas[1].group = "g"
    /\ LastGoas[2].group = ""
    /\ LastGoas[3].group = "h"
    /\ Present(Doc, << "g" >>)
    /\ ~Present(Doc, << "g", "h" >>)

\* The paths of the maps a call writes to.
Paths == {GroupPath(LastGoas, i) : i \in 0..Len(LastGoas)}

\* The keys Handle itself writes at the top level.
TopLevelKeys == {TimeKey, SeverityKey, MessageKey, ErrorKey} \cup ReportKeys

\* The names of the groups opened in the map at path.
GroupsUnder(path) ==
    {Head(SubSeq(q, Len(path) + 1, Len(q))) :
        q \in {q2 \in Paths : Len(q2) = Len(path) + 1 /\ SubSeq(q2, 1, Len(path)) = path /\ Present(Doc, q2)}}

(***************************************************************************)
(* C8: every attribute is written into the map reached from the top level  *)
(* through exactly the groups opened before it (the record's attributes    *)
(* under all groups of the stack), and within one map the last write to a  *)
(* key, in stack-then-record order, is the one the document shows.  The    *)
(* top-level message of an error report is left out: the report writes it. *)
(***************************************************************************)
C8_PlacementAndLastWriteWins ==
    Emitted =>
        /\ \A i \in 1..Len(Placed) : Present(Doc, Placed[i].path)
        /\ \A path \in Paths :
            Present(Doc, path) =>
                /\ \A k \in {Placed[i].key : i \in 1..Len(Placed)} :
                    LET n == LastPlaced(path, k)
                    IN  IF n = 0
                        THEN Has(At(Doc, path), k) => (path = << >> /\ k \in TopLevelKeys)
                        ELSE /\ Has(At(Doc, path), k)
                             /\ (path = << >> /\ k = MessageKey /\ Has(Doc, ErrorReportTypeKey))
                                   \/ At(Doc, path)[k] = Placed[n].written
                /\ DOMAIN At(Doc, path) \subseteq
                       {Placed[i].key : i \in {j \in 1..Len(Placed) : Placed[j].path = path}}
                           \cup GroupsUnder(path)
                           \cup (IF path = << >> THEN TopLevelKeys ELSE {})

\* Two writes to the same key of a group, one from WithAttrs and one from
\* the record: the document shows the record's.
C8_Witness ==
    /\ Emitted
    /\ Len(LastGoas) = 2
    /\ LastGoas[1].group = "g"
    /\ LastGoas[2].attrs = << Attr("k", "stringer") >>
    /\ last.rec.attrs = << Attr("k", "stringer") >>
    /\ Doc["g"].m["k"] = Str("stringer")
    /\ Placed[1].written = Raw("stringer")

\* The attributes of the stack of the last call, in the order of Placed.
StackAttrs == Flatten(LastGoas)

(***************************************************************************)
(* C20 (as claimed): an attribute attached through WithAttrs is in the     *)
(* document with its value flattened by extractValue, the value the same   *)
(* attribute gets when the record carries it at the same nesting level.    *)
(* Stated for the attributes whose write is the last to their key; the     *)
(* top-level keys of an error report are left out: the report writes them. *)
(***************************************************************************)
C20_StackValuesFlattened ==
    Emitted =>
        \A i \in 1..Len(StackAttrs) :
            LET p == Placed[i]
            IN  (/\ LastPlaced(p.path, p.key) = i
                 /\ ~(p.path = << >> /\ p.key \in ReportKeys /\ Has(Doc, ErrorReportTypeKey)))
                    => /\ Present(Doc, p.path)
                       /\ Has(At(Doc, p.path), p.key)
                       /\ At(Doc, p.path)[p.key] = extractValue(StackAttrs[i].val)

\* The minimum level the handler was built with.
MinimumLevel == IF cfg.isNil \/ ~cfg.levelSet THEN LevelInfo ELSE cfg.level

\* Levels from below debug to above emergency.
AllLevels == (LevelDebug - 1)..(LevelEmergency + 1)

(***************************************************************************)
(* C2: Enabled(L) is true exactly when L >= M, M being the info level when *)
(* the handler was built with nil options or with options whose level is   *)
(* unset; a record below M is never handled and the sink receives nothing  *)
(* for it.                                                                 *)
(***************************************************************************)
C2_EnabledIffAtLeastMinimum ==
    /\ \A i \in 1..Len(handlers), L \in AllLevels :
          Enabled(handlers[i], L) <=> L >= MinimumLevel
    /\ last # NoLast =>
          /\ last.handled <=> last.rec.level >= MinimumLevel
          /\ ~last.handled => (sink = << >> /\ last.out = EmptyMap)

\* A debug record was logged through a derived handler whose options left
\* the level unset, and was dropped.
C2_Witness ==
    /\ last # NoLast
    /\ ~cfg.isNil /\ ~cfg.levelSet
    /\ last.h > 1
    /\ last.rec.level = LevelDebug
    /\ ~last.handled
    /\ sink = << >>

(***************************************************************************)
(* SpecDerive: goroutines that derive handlers from any handler made so    *)
(* far, their statements interleaved.                                      *)
(***************************************************************************)
MaxHandlers == 4

DeriveEntries == { GroupGoa("g"), AttrsGoa(<< Attr("k", "v1") >>) }

InFlight == { c \in 1..Len(calls) : calls[c].pc # "done" }

InitDerive == InitWith(Cfgs)

DeriveStart ==
    \E p \in 1..Len(handlers), goa \in DeriveEntries :
        /\ Len(handlers) + Cardinality(InFlight) < MaxHandlers
        /\ WithStart(p, goa)

DeriveCopy == \E c \in 1..Len(calls) : WithCopy(c)

DeriveSet == \E c \in 1..Len(calls) : WithSet(c)

DeriveReturn == \E c \in 1..Len(calls) : WithReturn(c)

NextDerive == DeriveStart \/ DeriveCopy \/ DeriveSet \/ DeriveReturn

SpecDerive == InitDerive /\ [][NextDerive]_vars

(***************************************************************************)
(* C9: every handler WithAttrs or WithGroup returned shows the stack its   *)
(* parent showed followed by the one entry given, and every handler, the   *)
(* root included, still shows the stack it showed when it was returned,    *)
(* whatever was derived since, sequentially or concurrently.               *)
(***************************************************************************)
C9_DerivationLeavesOthersUnchanged ==
    /\ Len(made) = Len(handlers)
    /\ Goas(handlers[1]) = << >>
    /\ \A i \in 2..Len(handlers) :
          /\ made[i].parent \in 1..(i - 1)
          /\ made[i].goas = made[made[i].parent].goas \o << made[i].goa >>
          /\ Goas(handlers[i]) = made[i].goas
          /\ \A j \in 2..Len(handlers) : j # i => handlers[j].goas.arr # handlers[i].goas.arr

\* Two derivations from one derived handler overlapped: the one that
\* started first returned last, and they carry different entries.
C9_Witness ==
    \E c1, c2 \in 1..Len(calls) :
        /\ c1 < c2
        /\ calls[c1].pc = "done" /\ calls[c2].pc = "done"
        /\ calls[c1].h = calls[c2].h /\ calls[c1].h > 1
        /\ calls[c1].goa # calls[c2].goa
        /\ calls[c1].res > calls[c2].res

(***************************************************************************)
(* SpecConc: loggers of concurrent goroutines on handlers derived from one *)
(* root, Handle taken statement by statement.                              *)
(***************************************************************************)
MaxCalls == 2

MaxConcHandlers == 2

ConcRecords == { Rec(LevelError, << >>), Rec(LevelError, << Attr(ErrorKey, "boom") >>) }

EncodeResults == {"ok", "marshalErr", "writeErr"}

InitConc == InitWith({Cfg(FALSE, 0, "errToError")})

ConcDerive ==
    \E p \in 1..Len(handlers), goa \in DeriveEntries :
        /\ Len(handlers) < MaxConcHandlers
        /\ Derive(p, goa)

ConcLog ==
    \E p \in 1..Len(handlers), r \in ConcRecords :
        /\ Len(calls) < MaxCalls
        /\ HandleStart(p, r)

ConcTransform == \E c \in 1..Len(calls) : HandleTransform(c)

ConcLock == \E c \in 1..Len(calls) : HandleLock(c)

ConcEncode == \E c \in 1..Len(calls), res \in EncodeResults : HandleEncode(c, res)

ConcWrite == \E c \in 1..Len(calls) : HandleWrite(c)

ConcReturn == \E c \in 1..Len(calls) : HandleReturn(c)

NextConc ==
    \/ ConcDerive
    \/ ConcLog
    \/ ConcTransform
    \/ ConcLock
    \/ ConcEncode
    \/ ConcWrite
    \/ ConcReturn

SpecConc == InitConc /\ [][NextConc]_vars

\* The Handle calls, and those between Lock and Unlock.
Handles == { c \in 1..Len(calls) : calls[c].kind = "handle" }

InCritical(c) == calls[c].pc \in {"encode", "write", "unlock"}

PiecesOf(c) == { i \in 1..Len(sink) : sink[i].call = c }

(***************************************************************************)
(* C10: all handlers derived from one root use the root's mutex and        *)
(* encoder; at most one Handle call is between Lock and Unlock, and a call *)
(* that is still transforming holds no mutex; the sink is a sequence of    *)
(* lines, each the body and the newline of one call with nothing of        *)
(* another call in between; a call that returned without error has         *)
(* exactly one line, and when all N calls have returned without error the  *)
(* sink holds exactly N lines.                                             *)
(***************************************************************************)
C10_OneMutexOneLinePerCall ==
    /\ \A i \in 1..Len(handlers) :
          /\ handlers[i].mtx = handlers[1].mtx
          /\ handlers[i].encoder = handlers[1].encoder
    /\ Cardinality({ c \in Handles : InCritical(c) }) <= 1
    /\ \A c \in Handles : InCritical(c) <=> [mtx |-> handlers[1].mtx, by |-> c] \in held
    /\ \A i \in 1..Len(sink) :
          IF i % 2 = 1
          THEN /\ sink[i].part = "body"
               /\ i < Len(sink) => sink[i + 1] = [call |-> sink[i].call, part |-> "nl"]
               /\ i = Len(sink) => calls[sink[i].call].pc = "write"
          ELSE sink[i].part = "nl"
    /\ \A c \in Handles :
          calls[c].pc = "done" =>
              Cardinality(PiecesOf(c)) = IF calls[c].failed THEN 0 ELSE 2
    /\ (\A c \in Handles : calls[c].pc = "done" /\ ~calls[c].failed)
          => Len(sink) = 2 * Cardinality(Handles)

\* Two calls on two handlers, one of them derived, overlapped: the call
\* that started last wrote first, and the sink holds their two lines.
C10_Witness ==
    /\ Len(calls) = 2
    /\ \A c \in 1..2 : calls[c].pc = "done" /\ ~calls[c].failed
    /\ calls[1].h # calls[2].h
    /\ Len(sink) = 4
    /\ sink[1].call = 2 /\ sink[2].call = 2
    /\ sink[3].call = 1 /\ sink[4].call = 1

\* The Handle calls that have returned.
Returned == { c \in Handles : calls[c].pc = "done" }

(***************************************************************************)
(* C11 (as claimed): a Handle call that has returned made exactly one      *)
(* encode attempt and holds no mutex, and it returned an error exactly     *)
(* when its own attempt was one that fails: the failed write of another    *)
(* call does not alter it.                                                 *)
(***************************************************************************)
C11_FailureStaysWithItsCall ==
    \A c \in Returned :
        /\ calls[c].tries = 1
        /\ \A x \in held : x.by # c
        /\ calls[c].failed <=> calls[c].asked # "ok"

(***************************************************************************)
(* SpecPure: a caller of the package's functions, one call after another,  *)
(* on arguments of every kind.  last keeps the function, the argument and  *)
(* the result of the latest call.                                          *)
(***************************************************************************)
LevelMargin == 3

LevelRange == (LevelDebug - LevelMargin)..(LevelEmergency + LevelMargin)

InitPure == InitWith({NilCfg})

PureCall(fn, arg, ret) ==
    /\ last' = [fn |-> fn, arg |-> arg, ret |-> ret]
    /\ UNCHANGED <<cfg, handlers, heap, made, held, encErr, sink, calls>>

IsCall(fn) == "fn" \in DOMAIN last /\ last.fn = fn

CallSeverityFromLevel ==
    \E level \in LevelRange : PureCall("severityFromLevel", level, severityFromLevel(level))

\* The eight thresholds with their labels, lowest first.
Thresholds ==
    << [level |-> LevelDebug, label |-> DebugSeverity],
       [level |-> LevelInfo, label |-> InfoSeverity],
       [level |-> LevelNotice, label |-> NoticeSeverity],
       [level |-> LevelWarning, label |-> WarningSeverity],
       [level |-> LevelError, label |-> ErrorSeverity],
       [level |-> LevelCritical, label |-> CriticalSeverity],
       [level |-> LevelAlert, label |-> AlertSeverity],
       [level |-> LevelEmergency, label |-> EmergencySeverity] >>

\* The rank of a label: 0 for DEFAULT, then the place of its threshold.
Rank(label) ==
    IF label = DefaultSeverity THEN 0
    ELSE CHOOSE i \in 1..Len(Thresholds) : Thresholds[i].label = label

\* The label of the highest threshold that is <= level.
HighestThreshold(level) ==
    LET is == {i \in 1..Len(Thresholds) : Thresholds[i].level <= level}
    IN  IF is = {} THEN DefaultSeverity
        ELSE Thresholds[CHOOSE i \in is : \A j \in is : j <= i].label

(***************************************************************************)
(* C12: severityFromLevel(L) is the label of the highest of the eight      *)
(* thresholds that is <= L, DEFAULT when L is below debug; it is one of    *)
(* the nine labels, and no lower level gets a label of higher rank.        *)
(***************************************************************************)
C12_SeverityIsHighestThreshold ==
    IsCall("severityFromLevel") =>
        /\ last.ret = HighestThreshold(last.arg)
        /\ last.ret \in {DefaultSeverity} \cup {Thresholds[i].label : i \in 1..Len(Thresholds)}
        /\ \A lower \in LevelRange :
              lower <= last.arg => Rank(severityFromLevel(lower)) <= Rank(last.ret)

\* A level between two thresholds: just above notice, below warning.
C12_Witness ==
    /\ IsCall("severityFromLevel")
    /\ last.arg = LevelNotice + 1
    /\ last.ret = NoticeSeverity

\* The arguments ReplaceAttr is called with.
ReplaceKeys == {SlogTimeKey, SlogLevelKey, SlogSourceKey, SlogMessageKey, SeverityKey, "k"}

ReplaceValues ==
    {LevelVal(level) : level \in LevelRange}
        \cup {StringVal("boom")}
        \cup {AnyVal(v) : v \in {"source", "nilSource", "plainErr", "stringer", "int42"}}

ReplaceGroups == {<< >>, << "g" >>}

CallReplaceAttr ==
    \E groups \in ReplaceGroups, key \in ReplaceKeys, val \in ReplaceValues :
        PureCall("ReplaceAttr", [groups |-> groups, a |-> [key |-> key, val |-> val]],
                 ReplaceAttr(groups, [key |-> key, val |-> val]))

(***************************************************************************)
(* C13 (as claimed): at depth zero ReplaceAttr turns the attribute keyed   *)
(* level into one keyed severity whose value is the label                  *)
(* severityFromLevel gives for the level, and DEFAULT only when the value  *)
(* is not a level.                                                         *)
(***************************************************************************)
C13_LevelBecomesSeverity ==
    (IsCall("ReplaceAttr") /\ last.arg.groups = << >> /\ last.arg.a.key = SlogLevelKey) =>
        /\ last.ret.key = SeverityKey
        /\ last.ret.val =
              StringVal(IF last.arg.a.val.kind = "level"
                        THEN severityFromLevel(last.arg.a.val.level)
                        ELSE DefaultSeverity)

\* The four keys ReplaceAttr knows.
WellKnownKeys == {SlogTimeKey, SlogLevelKey, SlogSourceKey, SlogMessageKey}

(***************************************************************************)
(* C14: ReplaceAttr returns its attribute unchanged, key and value, when   *)
(* the group path is not empty, when the key is none of the four           *)
(* well-known keys, and for the time key at depth zero.                    *)
(***************************************************************************)
C14_OthersUnchanged ==
    (/\ IsCall("ReplaceAttr")
     /\ \/ last.arg.groups # << >>
        \/ last.arg.a.key \notin WellKnownKeys
        \/ last.arg.a.key = SlogTimeKey)
        => last.ret = last.arg.a

\* The level key inside a group: unchanged.
C14_Witness ==
    /\ IsCall("ReplaceAttr")
    /\ last.arg.groups = << "g" >>
    /\ last.arg.a = [key |-> SlogLevelKey, val |-> LevelVal(LevelError)]
    /\ last.ret = last.arg.a

(***************************************************************************)
(* C15 (as claimed): at depth zero the attribute keyed source comes back   *)
(* keyed logging.googleapis.com/sourceLocation with the same value, and    *)
(* the attribute keyed msg comes back keyed message with the string form   *)
(* of its value.                                                           *)
(***************************************************************************)
C15_SourceAndMessageRenamed ==
    (IsCall("ReplaceAttr") /\ last.arg.groups = << >>) =>
        /\ last.arg.a.key = SlogSourceKey =>
              last.ret = [key |-> SourceLocationKey, val |-> last.arg.a.val]
        /\ last.arg.a.key = SlogMessageKey =>
              last.ret = [key |-> MessageKey, val |-> StringVal(ValueString(last.arg.a.val))]

(***************************************************************************)
(* C15 (amended): at depth zero the attribute keyed source comes back      *)
(* keyed logging.googleapis.com/sourceLocation with the same value when    *)
(* its value is a non-nil *slog.Source, and unchanged otherwise; the       *)
(* attribute keyed msg comes back keyed message with the string form of    *)
(* its value.                                                              *)
(***************************************************************************)
C15_SourceValueAndMessageRenamed ==
    (IsCall("ReplaceAttr") /\ last.arg.groups = << >>) =>
        /\ last.arg.a.key = SlogSourceKey =>
              last.ret = IF last.arg.a.val = AnyVal("source")
                         THEN [key |-> SourceLocationKey, val |-> last.arg.a.val]
                         ELSE last.arg.a
        /\ last.arg.a.key = SlogMessageKey =>
              last.ret = [key |-> MessageKey, val |-> StringVal(ValueString(last.arg.a.val))]

\* A *slog.Source under the key source at depth zero: renamed, same value.
C15_Witness ==
    /\ IsCall("ReplaceAttr")
    /\ last.arg.groups = << >>
    /\ last.arg.a = [key |-> SlogSourceKey, val |-> AnyVal("source")]
    /\ last.ret = [key |-> SourceLocationKey, val |-> AnyVal("source")]

CallExtractValue == \E v \in Values : PureCall("extractValue", v, extractValue(v))

\* The rule of extractValue that is first to match a value.
FirstRule(v) ==
    IF v \in GroupValues THEN "group"
    ELSE IF v \in LogValuers THEN "LogValuer"
    ELSE IF v \in Marshalers THEN "marshaler"
    ELSE IF v \in ErrorValues THEN "error"
    ELSE IF v \in Stringers THEN "Stringer"
    ELSE "unchanged"

(***************************************************************************)
(* C16: extractValue resolves a value by the first rule that matches it,   *)
(* in the order group (a map of the members, each resolved), LogValuer     *)
(* (the resolution of LogValue()), marshaler (the value itself), error     *)
(* (its Error() text), Stringer (its String() text), else the value        *)
(* unchanged, whatever other capabilities the value has.                   *)
(***************************************************************************)
C16_FirstMatchingRule ==
    IsCall("extractValue") =>
        LET v == last.arg
            members == GroupMembers(v)
        IN  CASE FirstRule(v) = "group" ->
                   /\ last.ret.t = "map"
                   /\ DOMAIN last.ret.m = {members[i].key : i \in 1..Len(members)}
                   /\ \A i \in 1..Len(members) :
                         last.ret.m[members[i].key] = extractValue(members[i].val)
              [] FirstRule(v) = "LogValuer" -> last.ret = extractValue(LogValue(v))
              [] FirstRule(v) = "marshaler" -> last.ret = Raw(v)
              [] FirstRule(v) = "error" -> last.ret = Str(ErrorText(v))
              [] FirstRule(v) = "Stringer" -> last.ret = Str(StringOf(v))
              [] OTHER -> last.ret = AnyOf(v)

\* A value that is an error and a Stringer: the error text.
C16_Witness ==
    /\ IsCall("extractValue")
    /\ last.arg = "errStringer"
    /\ last.arg \in ErrorValues \cap Stringers
    /\ last.ret = Str("errStringer text")

CallAssertErrorValue ==
    \E value \in Values : PureCall("assertErrorValue", value, assertErrorValue(value))

\* The value is an error whose StackTrace() returns ok and a trace that is
\* not empty.
HasTrace(v) ==
    v \in ErrorValues /\ v \in StackTraceErrors /\ StackTrace(v).ok /\ StackTrace(v).trace # ""

\* What the value's ReportLocation() returns, nil when it has no such method.
OwnLocation(v) == IF v \in ReportLocationErrors THEN ReportLocation(v) ELSE "nil"

C18_HeaderNewlineTrace ==
    (IsCall("assertErrorValue") /\ last.arg \in ErrorValues /\ last.arg \in StackTraceErrors) =>
        last.ret.errMsg =
            IF StackTrace(last.arg).ok
            THEN ErrorText(last.arg) \o "\n" \o StackTrace(last.arg).trace
            ELSE ErrorText(last.arg)

NextPure ==
    \/ CallSeverityFromLevel
    \/ CallReplaceAttr
    \/ CallExtractValue
    \/ CallAssertErrorValue

SpecPure == InitPure /\ [][NextPure]_vars

(***************************************************************************)
(* SpecSeverity: one logger, derived step by step, logging records of      *)
(* every level; attributes may use the severity key.                       *)
(***************************************************************************)
SeverityAttrPool == { Attr(SeverityKey, "v1"), Attr("k", "stringer") }

SeverityAttrSeqs(n) == UNION { [1..k -> SeverityAttrPool] : k \in 0..n }

InitSeverity == InitWith({NilCfg, Cfg(TRUE, LevelDebug - LevelMargin, "nil")})

SeverityDeriveAttrs ==
    \E attrs \in SeverityAttrSeqs(TipRoom) :
        /\ last = NoLast
        /\ Len(attrs) > 0
        /\ WithAttrs(Tip, attrs)

SeverityLog ==
    \E level \in LevelRange, attrs \in SeverityAttrSeqs(TipRoom) :
        /\ last = NoLast
        /\ LogSync(Tip, Rec(level, attrs), "ok")

NextSeverity == DeriveGroup \/ SeverityDeriveAttrs \/ SeverityLog

SpecSeverity == InitSeverity /\ [][NextSeverity]_vars

\* The nine severity labels.
SeverityLabels ==
    { DefaultSeverity, DebugSeverity, InfoSeverity, NoticeSeverity, WarningSeverity,
      ErrorSeverity, CriticalSeverity, AlertSeverity, EmergencySeverity }

(***************************************************************************)
(* C21 (as claimed): in every document Handle emits, the top-level         *)
(* severity field is one of the nine severity labels and is                *)
(* severityFromLevel of the record's level, whatever attributes were       *)
(* attached through WithAttrs or are carried by the record.                *)
(***************************************************************************)
C21_SeverityIsOfTheLevel ==
    Emitted =>
        /\ Has(Doc, SeverityKey)
        /\ Doc[SeverityKey] \in { Str(l) : l \in SeverityLabels }
        /\ Doc[SeverityKey] = Str(severityFromLevel(last.rec.level))

(***************************************************************************)
(* C22: Handle never changes the handler it is called on.  Under SpecConc, *)
(* whatever Handle calls have run or are running, every handler shows the  *)
(* stack it showed when it was returned; the document of every call is the *)
(* one Handle builds for its record on that stack, as if the call were the *)
(* only one; and the document of a record with attributes has a map for    *)
(* every group of the stack, nested in order, the innermost holding the    *)
(* record's attributes, also after a record without attributes was handled *)
(* on the same handler.                                                    *)
(***************************************************************************)
C22_HandleLeavesHandlerUnchanged ==
    /\ \A i \in 1..Len(handlers) :
          /\ Goas(handlers[i]) = made[i].goas
          /\ handlers[i].opts = handlers[1].opts
    /\ \A c \in Handles :
          calls[c].pc # "transform" =>
              LET goas == made[calls[c].h].goas
                  path == GroupPath(goas, Len(goas))
                  rec == calls[c].rec
              IN  /\ calls[c].out = handleOut(handlers[calls[c].h].opts, goas, rec)
                  /\ Len(rec.attrs) > 0 =>
                        /\ Present(calls[c].out, path)
                        /\ \A j \in 1..Len(rec.attrs) :
                              Has(At(calls[c].out, path), rec.attrs[j].key)

\* Two calls on one handler whose stack ends with a group have returned,
\* the first with a record without attributes, whose document has no map
\* for the group, the second with a record whose attribute is in the
\* group's map; the first call's line was written first.
C22_Witness ==
    /\ Len(calls) = 2
    /\ \A c \in 1..2 : calls[c].kind = "handle" /\ calls[c].pc = "done" /\ ~calls[c].failed
    /\ calls[1].h = calls[2].h
    /\ made[calls[1].h].goas = << GroupGoa("g") >>
    /\ calls[1].rec.attrs = << >>
    /\ ~Has(calls[1].out, "g")
    /\ calls[2].rec.attrs = << Attr(ErrorKey, "boom") >>
    /\ Has(calls[2].out, "g")
    /\ Has(calls[2].out["g"].m, ErrorKey)
    /\ sink[1].call = 1

\* The error attributes checkAndSetErrorReport accepts during the last
\* call, in the order of its calls: the first one of each batch before the
\* first group, then those of the record at depth zero.
FirstErrorOf(attrs) ==
    LET es == SelectSeq(attrs, LAMBDA a : a.key = ErrorKey)
    IN  IF es = << >> THEN << >> ELSE << es[1] >>

RECURSIVE ScannedErrors(_)
ScannedErrors(goas) ==
    IF goas = << >> THEN << >>
    ELSE FirstErrorOf(Head(goas).attrs) \o ScannedErrors(Tail(goas))

ReportingAttrs ==
    ScannedErrors(BeforeFirstGroup(LastGoas))
        \o SelectSeq(RecordTopAttrs, LAMBDA a : TopKey(a) = ErrorKey)

(***************************************************************************)
(* C23 (as claimed): in every error-report document, message and           *)
(* reportLocation derive from one and the same error attribute: when the   *)
(* emitted message is the one of the last error attribute accepted,        *)
(* reportLocation is present if and only if the value of that attribute    *)
(* provided a non-nil location.                                            *)
(***************************************************************************)
C23_LocationOfTheMessageAttribute ==
    (Emitted /\ Has(Doc, ErrorReportTypeKey) /\ Len(ReportingAttrs) > 0) =>
        LET r == assertErrorValue(ReportingAttrs[Len(ReportingAttrs)].val)
        IN  Doc[MessageKey] = Str(r.errMsg)
                => (Has(Doc, ReportLocationKey) <=> r.reportLocation # "nil")

====
